---- MODULE Spec2Model ----
(***************************************************************************)
(* The Silent Library application (Django): the request handlers of        *)
(* library/views.py over the tables of library/models.py, routed by        *)
(* library/urls.py, with the model admin of library/admin.py.              *)
(*                                                                         *)
(* Every action is one HTTP request handled to completion (Django handles  *)
(* a request in one thread, and none of the views spans requests), or the  *)
(* passing of one day.  `response` and `sent` are the outputs of the       *)
(* latest request: the response returned to the client and the calls made  *)
(* to django.core.mail.send_mail while handling it.  Each request action   *)
(* stamps response.view with its own name, so the view of response' tells  *)
(* which request a step served.                                            *)
(***************************************************************************)
EXTENDS Integers, Sequences, FiniteSets, TLC

VARIABLES
    today,      \* the current date, in days
    users,      \* table `users`: pk -> row
    books,      \* table `books`: pk -> row
    loans,      \* table `loans`: sequence of rows, the pk is the index
    sent,       \* send_mail calls of the latest request, in call order
    response,   \* the response to the latest request
    session,    \* the client's session: the user logged in and the auth hash
    reviews,    \* table `reviews`: sequence of rows, the pk is the index
    bound_form, \* the bound form of the latest request: its data and errors
    books_authors,  \* table `books_authors`: the set of its rows
    books_genres,   \* table `books_genres`: the set of its rows
    notifications   \* table `notifications`: sequence of rows

vars ==
    <<today, users, books, loans, sent, response, session, reviews,
      bound_form, books_authors, books_genres, notifications>>

\* What the views of the loan desk leave alone.
site ==
    <<session, reviews, bound_form, books_authors, books_genres,
      notifications>>

\* The persisted records: everything a request can write to the database.
db == <<users, books, loans>>

\* The same with the reviews, which the catalogue pages write.
tables == <<users, books, loans, reviews>>

-----------------------------------------------------------------------------
(* Bounds of the model *)

\* Dates range over 0..MaxDay.
MaxDay == 2

\* The loans table holds at most MaxLoans rows.
MaxLoans == 2

Dates == 0..MaxDay

\* The notifications table holds at most MaxNotifications rows.
MaxNotifications == 1

\* The validator is run on passwords of at most MaxLen characters.
MaxLen == 4

\* The books table holds rows with pks up to MaxBooks.
MaxBooks == 2

\* The reviews table holds at most MaxReviews rows.
MaxReviews == 2

-----------------------------------------------------------------------------
(* library/models.py *)

\* LoanStatus.BORROWED, RETURNED, OVERDUE
BORROWED == "borrowed"
RETURNED == "returned"
OVERDUE == "overdue"
LoanStatus == {BORROWED, RETURNED, OVERDUE}

\* The requester of a request that carries no authenticated session
\* (django.contrib.auth.models.AnonymousUser: is_staff is False).
Anonymous == 0

\* A row of `users`.  The password column is kept as the characters of the
\* password it was made from: check_password(raw) holds for that password
\* and no other.
User(username, email, password, is_staff) ==
    [username |-> username, email |-> email, password |-> password,
     is_staff |-> is_staff]

\* A row of `reviews`: user and book are foreign keys (pks).
Review(rating, review_text, user, book) ==
    [rating |-> rating, review_text |-> review_text, user |-> user,
     book |-> book]

\* A row of `books_authors` and one of `books_genres`: the foreign keys of
\* the two sides.
BookAuthor(book, author) == [book |-> book, author |-> author]
BookGenre(book, genre) == [book |-> book, genre |-> genre]

\* A row of `notifications`: user is a foreign key.
Notification(notification_text, user) ==
    [notification_text |-> notification_text, user |-> user]

\* The pks of the rows of `authors` and of `genres`, which no view writes.
Authors == {1}
Genres == {1}

\* The session of a client that is not logged in.
NoSession == [user |-> Anonymous, hash |-> <<>>]

\* No form was bound.
NoForm == [data |-> <<>>, errors |-> {}]

\* A row of `books`.
Book(title) == [title |-> title]

\* A row of `loans`: status defaults to 'borrowed', user and book are
\* foreign keys (pks).
Loan(status, due_date, user, book) ==
    [status |-> status, due_date |-> due_date, user |-> user, book |-> book]

-----------------------------------------------------------------------------
(* library/urls.py *)

\* The names of the routes of urlpatterns.
urlpatterns ==
    {"home", "register", "registration_complete", "login", "logout",
     "dashboard", "profile", "search_books", "book_detail",
     "password_reset", "password_reset_done", "password_reset_confirm",
     "password_reset_complete",
     "admin_dashboard", "admin_books", "add_book", "edit_book", "delete_book"}

-----------------------------------------------------------------------------
(* Responses *)

NoContext == [k \in {} |-> {}]

\* render(request, template, context): 200 with the template and its context.
render(view, template, context, msgs) ==
    [view |-> view, status |-> 200, template |-> template,
     context |-> context, location |-> "", messages |-> msgs]

\* redirect(name): 302 to the named route.
redirect(view, name, msgs) ==
    [view |-> view, status |-> 302, template |-> "",
     context |-> NoContext, location |-> name, messages |-> msgs]

\* No route of urlpatterns matches: the resolver answers 404 and no view runs.
Http404(view) ==
    [view |-> view, status |-> 404, template |-> "",
     context |-> NoContext, location |-> "", messages |-> <<>>]

\* An exception no view catches: the handler answers 500.
ServerError(view) ==
    [view |-> view, status |-> 500, template |-> "",
     context |-> NoContext, location |-> "", messages |-> <<>>]

\* Before any request of the day.
NoResponse ==
    [view |-> "", status |-> 0, template |-> "",
     context |-> NoContext, location |-> "", messages |-> <<>>]

-----------------------------------------------------------------------------
(* Inputs of the requests *)

\* Who sends a request: a user of the table, or nobody logged in.
Requesters == DOMAIN users \cup {Anonymous}

-----------------------------------------------------------------------------
(* What the tests of library/tests.py read and expect *)

\* The fine per day overdue: 5 days make 5.00, 2 days make 2.00.
DailyFineRate == 1

\* response.context_data['overdue_books_with_fines']: the entries
\* {'loan', 'days_overdue', 'fine_amount'} of the dashboard; no entry when the
\* context has no such key.
OverdueResult ==
    IF "overdue_books_with_fines" \in DOMAIN response.context
    THEN response.context["overdue_books_with_fines"]
    ELSE <<>>

\* The loans the overdue query is expected to return: marked OVERDUE, or
\* BORROWED and caught by due_date__lt=today.
Selected(pk) ==
    \/ loans[pk].status = OVERDUE
    \/ loans[pk].status = BORROWED /\ loans[pk].due_date < today

\* The loan is past its due date.
PastDue(pk) == loans[pk].due_date < today

LoanPks == 1..Len(loans)

\* The borrowers with at least one loan past its due date.
OverdueBorrowers == {loans[pk].user : pk \in {q \in LoanPks : PastDue(q)}}

\* mock_send_mail.call_args_list, narrowed to the calls addressed to user u.
SentTo(u) == {i \in 1..Len(sent) : sent[i].to = users[u].email}

\* The fine of loan pk on the current date.
Fine(pk) == (today - loans[pk].due_date) * DailyFineRate

RECURSIVE TotalFine(_)
\* The sum of the fines of a set of loans.
TotalFine(pks) ==
    IF pks = {} THEN 0
    ELSE LET pk == CHOOSE q \in pks : TRUE
         IN  Fine(pk) + TotalFine(pks \ {pk})

\* The loans of borrower u that are past their due date.
OverdueLoansOf(u) == {pk \in LoanPks : loans[pk].user = u /\ PastDue(pk)}

\* The staff member got the dashboard page.
DashboardServed ==
    response.view = "admin_dashboard" /\ response.status = 200

\* The request for send_overdue_emails was answered.
BulkServed == response.view = "send_overdue_emails"

-----------------------------------------------------------------------------
(* library/forms.py *)

\* The characters the pattern [A-Z] matches.
Upper ==
    {"A", "B", "C", "D", "E", "F", "G", "H", "I", "J", "K", "L", "M",
     "N", "O", "P", "Q", "R", "S", "T", "U", "V", "W", "X", "Y", "Z"}

\* The characters the pattern [a-z] matches.
Lower ==
    {"a", "b", "c", "d", "e", "f", "g", "h", "i", "j", "k", "l", "m",
     "n", "o", "p", "q", "r", "s", "t", "u", "v", "w", "x", "y", "z"}

\* The ASCII characters the pattern \d matches.
Digit ==
    {"0", "1", "2", "3", "4", "5", "6", "7", "8", "9"}

\* The characters the pattern [!@#$%^&*(),.?":{}|<>] matches.
Symbol ==
    {"!", "@", "#", "$", "%", "^", "&", "*", "(", ")", ",", ".", "?",
     "\"", ":", "{", "}", "|", "<", ">"}

\* re.search(pattern, string) for a pattern that is one character class:
\* whether some character of the string is of the class.
re_search(class, string) == \E i \in 1..Len(string) : string[i] \in class

\* The validator, had its last test taken every character that is neither a
\* letter nor a digit for a symbol.
CharacterVarietyValidator_any_symbol(password) ==
    IF ~re_search(Upper, password) THEN {"password_no_upper"}
    ELSE IF ~re_search(Lower, password) THEN {"password_no_lower"}
    ELSE IF ~re_search(Digit, password) THEN {"password_no_digit"}
    ELSE IF \A i \in 1..Len(password) :
                password[i] \in Upper \cup Lower \cup Digit
         THEN {"password_no_symbol"}
    ELSE {}

\* CharacterVarietyValidator.__call__: the codes of the ValidationError it
\* raises for the password, none when it returns.
CharacterVarietyValidator(password) ==
    IF ~re_search(Upper, password) THEN {"password_no_upper"}
    ELSE IF ~re_search(Lower, password) THEN {"password_no_lower"}
    ELSE IF ~re_search(Digit, password) THEN {"password_no_digit"}
    ELSE IF ~re_search(Symbol, password) THEN {"password_no_symbol"}
    ELSE {}

\* A form is bound to a submitted password and its field runs the validator,
\* once: the form keeps the value and the errors raised.
run_validators(password) ==
    /\ bound_form = NoForm
    /\ bound_form' = [data |-> password,
                      errors |-> CharacterVarietyValidator(password)]
    /\ UNCHANGED <<today, users, books, loans, sent, response, session,
                   reviews, books_authors, books_genres, notifications>>

\* forms.CharField.to_python (strip=True): the submitted value without the
\* whitespace around it.
RECURSIVE lstrip(_)
lstrip(value) ==
    IF value # <<>> /\ Head(value) = " " THEN lstrip(Tail(value)) ELSE value

RECURSIVE rstrip(_)
rstrip(value) ==
    IF value # <<>> /\ value[Len(value)] = " "
    THEN rstrip(SubSeq(value, 1, Len(value) - 1))
    ELSE value

strip(value) == rstrip(lstrip(value))

\* The error of a required field left empty.  Passwords are sequences of
\* characters; usernames and emails are kept whole, "" the empty one.
required(field, empty) == IF empty THEN {<<field, "required">>} ELSE {}

\* UserLoginForm(request.POST) after is_valid(): two required CharFields.
UserLoginForm(username, password) ==
    [data |-> [username |-> username, password |-> password],
     errors |-> required("username", username = "")
                \cup required("password", strip(password) = <<>>)]

\* clean_current_password of UserEditUsernameEmailForm, had it taken any
\* password.
UserEditUsernameEmailForm_clean_current_password_unchecked(user, current_password) ==
    {}

\* UserEditUsernameEmailForm.clean_current_password
UserEditUsernameEmailForm_clean_current_password(user, current_password) ==
    IF user = Anonymous \/ users[user].password # current_password
    THEN {<<"current_password", "incorrect_password">>}
    ELSE {}

\* UserEditUsernameEmailForm(request.POST, instance=user, user=user) after
\* is_valid(): username is required and unique among the other users, email
\* may be blank, current_password is required and checked.
UserEditUsernameEmailForm(user, username, email, current_password) ==
    [data |-> [username |-> username, email |-> email,
               current_password |-> current_password],
     errors |->
        required("username", username = "")
        \cup (IF \E u \in DOMAIN users \ {user} :
                     users[u].username = username
              THEN {<<"username", "unique">>} ELSE {})
        \cup (IF strip(current_password) = <<>>
              THEN required("current_password", TRUE)
              ELSE UserEditUsernameEmailForm_clean_current_password(
                       user, strip(current_password)))]

\* UserEditPasswordForm.clean_current_password
UserEditPasswordForm_clean_current_password(user, current_password) ==
    IF user = Anonymous \/ users[user].password # current_password
    THEN {<<"current_password", "incorrect_password">>}
    ELSE {}

\* UserEditPasswordForm.clean, had it not compared the two new passwords.
UserEditPasswordForm_clean_uncompared(new_password, confirm_new_password) ==
    {}

\* UserEditPasswordForm.clean on the cleaned values, <<>> for a field whose
\* own validation failed.
UserEditPasswordForm_clean(new_password, confirm_new_password) ==
    IF /\ new_password # <<>>
       /\ confirm_new_password # <<>>
       /\ new_password # confirm_new_password
    THEN {<<"confirm_new_password", "password_mismatch">>}
    ELSE {}

\* UserEditPasswordForm(request.POST, user=user) after is_valid(): three
\* required CharFields, new_password with the validator, then the clean_
\* methods.
UserEditPasswordForm(user, current_password, new_password, confirm_new_password) ==
    LET current == strip(current_password)
        new == strip(new_password)
        confirm == strip(confirm_new_password)
        new_errors ==
            IF new = <<>> THEN required("new_password", TRUE)
            ELSE {<<"new_password", code>> :
                      code \in CharacterVarietyValidator(new)}
    IN  [data |-> [current_password |-> current_password,
                   new_password |-> new_password,
                   confirm_new_password |-> confirm_new_password],
         errors |->
            (IF current = <<>> THEN required("current_password", TRUE)
             ELSE UserEditPasswordForm_clean_current_password(user, current))
            \cup new_errors
            \cup required("confirm_new_password", confirm = <<>>)
            \cup UserEditPasswordForm_clean(
                     IF new_errors = {} THEN new ELSE <<>>, confirm)]

\* BookForm(request.POST) after is_valid(), fields '__all__': of the columns
\* the model keeps the title, a required field; authors and genres are the
\* many-to-many fields, of which at least one each must be chosen.
BookForm(title, authors, genres) ==
    [data |-> [title |-> title, authors |-> authors, genres |-> genres],
     errors |-> required("title", title = "")
                \cup required("authors", authors = {})
                \cup required("genres", genres = {})]

\* ReviewForm(request.POST) after is_valid(): review_text is required, rating
\* is an integer from 1 to 5.
ReviewForm(rating, review_text) ==
    [data |-> [rating |-> rating, review_text |-> review_text],
     errors |-> required("review_text", review_text = "")
                \cup (IF rating < 1 THEN {<<"rating", "min_value">>} ELSE {})
                \cup (IF rating > 5 THEN {<<"rating", "max_value">>} ELSE {})]

-----------------------------------------------------------------------------
(* library/views.py *)

\* is_admin, had it let every logged-in user pass.
is_admin_any_user(u) == u # Anonymous

\* is_admin(user)
is_admin(u) == u # Anonymous /\ users[u].is_staff

\* admin_dashboard's body, had it passed the loans of the expected overdue
\* query to the template, unfiltered by date.
admin_dashboard_view_by_status ==
    LET pks == SelectSeq([i \in LoanPks |-> i], LAMBDA pk : Selected(pk))
        days(pk) == IF PastDue(pk) THEN today - loans[pk].due_date ELSE 0
    IN  render("admin_dashboard", "library/admin_dashboard.html",
               [overdue_books_with_fines |->
                    [i \in 1..Len(pks) |->
                        [loan |-> pks[i], days_overdue |-> days(pks[i]),
                         fine_amount |-> days(pks[i]) * DailyFineRate]]],
               <<>>)

\* The body of admin_dashboard(request): the template, rendered without a
\* context.
admin_dashboard_view ==
    render("admin_dashboard", "library/admin_dashboard.html", NoContext, <<>>)

\* admin_dashboard, had it also saved the status 'overdue' on the borrowed
\* loans that are past their due date.
admin_dashboard_marking_overdue(u) ==
    /\ sent' = <<>>
    /\ response' = IF is_admin(u) THEN admin_dashboard_view
                   ELSE redirect("admin_dashboard", "login", <<>>)
    /\ loans' = IF is_admin(u)
                THEN [pk \in LoanPks |->
                        IF loans[pk].status = BORROWED /\ PastDue(pk)
                        THEN [loans[pk] EXCEPT !.status = OVERDUE]
                        ELSE loans[pk]]
                ELSE loans
    /\ UNCHANGED <<today, users, books>>
    /\ UNCHANGED site

\* admin_dashboard(request) behind
\* @user_passes_test(is_admin, login_url=reverse_lazy('login'))
admin_dashboard(u) ==
    /\ sent' = <<>>
    /\ response' = IF is_admin(u) THEN admin_dashboard_view
                   ELSE redirect("admin_dashboard", "login", <<>>)
    /\ UNCHANGED <<today, users, books, loans>>
    /\ UNCHANGED site

\* The request for send_overdue_emails, had a view answered it that mails
\* the borrowers of the loans of the expected overdue query without checking
\* the due dates again.
send_overdue_emails_by_status ==
    LET of(u) == {pk \in LoanPks : loans[pk].user = u /\ Selected(pk)}
        bs == SelectSeq([i \in 1..Cardinality(DOMAIN users) |-> i],
                        LAMBDA u : of(u) # {})
    IN  /\ sent' = [i \in 1..Len(bs) |->
                       [to |-> users[bs[i]].email, loans |-> of(bs[i]),
                        total |-> TotalFine(of(bs[i])), ok |-> TRUE]]
        /\ response' = redirect("send_overdue_emails", "admin_dashboard",
                                <<"success">>)
        /\ UNCHANGED <<today, users, books, loans>>
        /\ UNCHANGED site

\* A request for the route send_overdue_emails, which the tests post to.
\* The resolver runs a route's view when urlpatterns has the name and answers
\* 404 otherwise, whoever asks: urlpatterns has no route send_overdue_emails
\* (and views.py no bulk_email_overdue_borrowers), so no view runs and
\* send_mail is not called.
send_overdue_emails ==
    /\ "send_overdue_emails" \notin urlpatterns
    /\ sent' = <<>>
    /\ response' = Http404("send_overdue_emails")
    /\ UNCHANGED <<today, users, books, loans>>
    /\ UNCHANGED site

\* request.user: the user of the session, if the session's hash still is
\* that of the user's password (django.contrib.auth.get_user).
request_user ==
    IF /\ session.user \in DOMAIN users
       /\ session.hash = users[session.user].password
    THEN session.user
    ELSE Anonymous

\* authenticate, had it looked at the username only.
authenticate_by_username(username, password) ==
    IF \E u \in DOMAIN users : users[u].username = username
    THEN CHOOSE u \in DOMAIN users : users[u].username = username
    ELSE Anonymous

\* authenticate(username=, password=): the user of that name if the password
\* is theirs, None (Anonymous) otherwise.
authenticate(username, password) ==
    IF \E u \in DOMAIN users :
           users[u].username = username /\ users[u].password = password
    THEN CHOOSE u \in DOMAIN users :
             users[u].username = username /\ users[u].password = password
    ELSE Anonymous

\* What a request that touches neither the tables nor the mail leaves alone.
no_write ==
    /\ UNCHANGED <<today, users, books, loans, reviews, books_authors,
                   books_genres, notifications>>
    /\ sent' = <<>>

\* login_view, GET: the empty login form.
login_view_get ==
    /\ response' = render("login_view", "library/login.html",
                          [form |-> NoForm], <<>>)
    /\ bound_form' = NoForm
    /\ session' = session
    /\ no_write

\* login_view, POST.
login_view(username, password) ==
    LET form == UserLoginForm(username, password)
        user == authenticate(username, strip(password))
    IN  /\ bound_form' = form
        /\ IF form.errors = {} /\ user # Anonymous
           THEN /\ session' = [user |-> user, hash |-> users[user].password]
                /\ response' =
                      redirect("login_view",
                               IF users[user].is_staff
                               THEN "admin_dashboard" ELSE "dashboard",
                               <<>>)
           ELSE /\ session' = session
                /\ response' =
                      render("login_view", "library/login.html",
                             [form |-> form],
                             IF form.errors = {}
                             THEN <<"Invalid username or password.">>
                             ELSE <<>>)
        /\ no_write

\* @login_required for a requester who is not logged in: a redirect to the
\* login URL of the settings, the view not run.
login_required(view) ==
    /\ response' = redirect(view, "settings.LOGIN_URL", <<>>)
    /\ bound_form' = NoForm
    /\ session' = session
    /\ no_write

\* logout_view
logout_view ==
    IF request_user = Anonymous THEN login_required("logout_view")
    ELSE /\ session' = NoSession
         /\ response' =
               redirect("logout_view", "home",
                        <<"You have been successfully logged out.">>)
         /\ bound_form' = NoForm
         /\ no_write

\* profile, GET: the three forms, unbound.
profile_get ==
    IF request_user = Anonymous THEN login_required("profile")
    ELSE /\ response' = render("profile", "library/profile.html",
                               [password_form |-> NoForm], <<>>)
         /\ bound_form' = NoForm
         /\ session' = session
         /\ no_write

\* profile, POST with 'edit_profile': UserEditForm saves first_name and
\* last_name, which the model does not keep.
profile_edit_profile ==
    IF request_user = Anonymous THEN login_required("profile")
    ELSE /\ response' = redirect("profile", "profile",
                                 <<"Profile updated successfully.">>)
         /\ bound_form' = NoForm
         /\ session' = session
         /\ no_write

\* profile, POST with 'edit_username_email'.
profile_edit_username_email(username, email, current_password) ==
    IF request_user = Anonymous THEN login_required("profile")
    ELSE LET user == request_user
             form == UserEditUsernameEmailForm(user, username, email,
                                               current_password)
         IN  /\ bound_form' = form
             /\ session' = session
             /\ sent' = <<>>
             /\ UNCHANGED <<today, books, loans, reviews, books_authors,
                            books_genres, notifications>>
             /\ IF form.errors = {}
                THEN /\ users' = [users EXCEPT ![user].username = username,
                                               ![user].email = email]
                     /\ response' =
                          redirect("profile", "profile",
                            <<"Username and email updated successfully.">>)
                ELSE /\ users' = users
                     /\ response' =
                          render("profile", "library/profile.html",
                                 [username_email_form |-> form], <<>>)

\* profile, POST with 'change_password': the form's save() sets the new
\* password and saves that field, and update_session_auth_hash keeps the
\* session valid.
profile_change_password(current_password, new_password, confirm_new_password) ==
    IF request_user = Anonymous THEN login_required("profile")
    ELSE LET user == request_user
             form == UserEditPasswordForm(user, current_password,
                                          new_password, confirm_new_password)
         IN  /\ bound_form' = form
             /\ sent' = <<>>
             /\ UNCHANGED <<today, books, loans, reviews, books_authors,
                            books_genres, notifications>>
             /\ IF form.errors = {}
                THEN /\ users' = [users EXCEPT
                                    ![user].password = strip(new_password)]
                     /\ session' = [user |-> user,
                                    hash |-> users'[user].password]
                     /\ response' =
                          redirect("profile", "profile",
                                   <<"Password updated successfully.">>)
                ELSE /\ users' = users
                     /\ session' = session
                     /\ response' =
                          render("profile", "library/profile.html",
                                 [password_form |-> form], <<>>)

\* request.user.is_authenticated, had it held of everybody.
is_authenticated_always(u) == TRUE

\* request.user.is_authenticated
is_authenticated(u) == u # Anonymous

\* book_detail, GET: the book, its reviews and an empty form; 404 for a book
\* that does not exist.
book_detail_get(book_id) ==
    /\ response' =
          IF book_id \notin DOMAIN books THEN Http404("book_detail")
          ELSE render("book_detail", "library/book_detail.html",
                      [book |-> book_id,
                       reviews |-> SelectSeq(reviews,
                                     LAMBDA r : r.book = book_id),
                       form |-> NoForm],
                      <<>>)
    /\ bound_form' = NoForm
    /\ session' = session
    /\ no_write

\* book_detail, POST.
book_detail(book_id, rating, review_text) ==
    LET form == ReviewForm(rating, review_text)
        saves == /\ book_id \in DOMAIN books
                 /\ is_authenticated(request_user)
                 /\ form.errors = {}
    IN  /\ saves => Len(reviews) < MaxReviews
        /\ session' = session
        /\ sent' = <<>>
        /\ UNCHANGED <<today, users, books, loans, books_authors,
                       books_genres, notifications>>
        /\ IF book_id \notin DOMAIN books
           THEN /\ response' = Http404("book_detail")
                /\ bound_form' = NoForm
                /\ reviews' = reviews
           ELSE IF ~is_authenticated(request_user)
           THEN /\ response' =
                      redirect("book_detail", "login",
                               <<"You must be logged in to post a review.">>)
                /\ bound_form' = NoForm
                /\ reviews' = reviews
           ELSE /\ bound_form' = form
                /\ IF form.errors = {}
                   THEN /\ reviews' =
                              Append(reviews,
                                     Review(rating, review_text,
                                            request_user, book_id))
                        /\ response' =
                              redirect("book_detail", "book_detail",
                                       <<"Your review has been submitted.">>)
                   ELSE /\ reviews' = reviews
                        /\ response' =
                              render("book_detail",
                                     "library/book_detail.html",
                                     [book |-> book_id,
                                      reviews |-> SelectSeq(reviews,
                                                    LAMBDA r :
                                                       r.book = book_id),
                                      form |-> form],
                                     <<>>)

\* @user_passes_test(is_admin, login_url='login') for a requester who fails
\* the test: a redirect to 'login', the view not run.
user_passes_test(view) ==
    /\ response' = redirect(view, "login", <<>>)
    /\ bound_form' = NoForm
    /\ session' = session
    /\ no_write

\* admin_books
admin_books ==
    IF ~is_admin(request_user) THEN user_passes_test("admin_books")
    ELSE /\ response' = render("admin_books", "library/admin_books.html",
                               [books |-> DOMAIN books], <<>>)
         /\ bound_form' = NoForm
         /\ session' = session
         /\ no_write

\* add_book, GET: the empty form.
add_book_get ==
    IF ~is_admin(request_user) THEN user_passes_test("add_book")
    ELSE /\ response' = render("add_book", "library/book_form.html",
                               [form |-> NoForm, action |-> "Add"], <<>>)
         /\ bound_form' = NoForm
         /\ session' = session
         /\ no_write

\* The pk the table gives its next row.
NextBookPk ==
    IF DOMAIN books = {} THEN 1
    ELSE 1 + CHOOSE pk \in DOMAIN books : \A q \in DOMAIN books : q <= pk

\* add_book, POST.
add_book(title, authors, genres) ==
    IF ~is_admin(request_user) THEN user_passes_test("add_book")
    ELSE LET form == BookForm(title, authors, genres)
         IN  /\ form.errors = {} => NextBookPk <= MaxBooks
             /\ bound_form' = form
             /\ session' = session
             /\ sent' = <<>>
             /\ UNCHANGED <<today, users, loans, reviews, notifications>>
             /\ IF form.errors = {}
                THEN /\ books' = books @@ (NextBookPk :> Book(title))
                     /\ books_authors' =
                           books_authors
                           \cup {BookAuthor(NextBookPk, a) : a \in authors}
                     /\ books_genres' =
                           books_genres
                           \cup {BookGenre(NextBookPk, g) : g \in genres}
                     /\ response' = redirect("add_book", "admin_books",
                                             <<"added">>)
                ELSE /\ books' = books
                     /\ UNCHANGED <<books_authors, books_genres>>
                     /\ response' =
                           render("add_book", "library/book_form.html",
                                  [form |-> form, action |-> "Add"], <<>>)

\* edit_book, GET: the form of the book; 404 for a book that does not exist.
edit_book_get(book_id) ==
    IF ~is_admin(request_user) THEN user_passes_test("edit_book")
    ELSE /\ response' =
               IF book_id \notin DOMAIN books THEN Http404("edit_book")
               ELSE render("edit_book", "library/book_form.html",
                           [form |-> NoForm, action |-> "Edit",
                            book |-> book_id],
                           <<>>)
         /\ bound_form' = NoForm
         /\ session' = session
         /\ no_write

\* edit_book, POST.
edit_book(book_id, title, authors, genres) ==
    IF ~is_admin(request_user) THEN user_passes_test("edit_book")
    ELSE IF book_id \notin DOMAIN books
    THEN /\ response' = Http404("edit_book")
         /\ bound_form' = NoForm
         /\ session' = session
         /\ no_write
    ELSE LET form == BookForm(title, authors, genres)
         IN  /\ bound_form' = form
             /\ session' = session
             /\ sent' = <<>>
             /\ UNCHANGED <<today, users, loans, reviews, notifications>>
             /\ IF form.errors = {}
                THEN /\ books' = [books EXCEPT ![book_id] = Book(title)]
                     /\ books_authors' =
                           {r \in books_authors : r.book # book_id}
                           \cup {BookAuthor(book_id, a) : a \in authors}
                     /\ books_genres' =
                           {r \in books_genres : r.book # book_id}
                           \cup {BookGenre(book_id, g) : g \in genres}
                     /\ response' = redirect("edit_book", "admin_books",
                                             <<"updated">>)
                ELSE /\ books' = books
                     /\ UNCHANGED <<books_authors, books_genres>>
                     /\ response' =
                           render("edit_book", "library/book_form.html",
                                  [form |-> form, action |-> "Edit",
                                   book |-> book_id],
                                  <<>>)

\* delete_book, GET: the confirmation page.
delete_book_get(book_id) ==
    IF ~is_admin(request_user) THEN user_passes_test("delete_book")
    ELSE /\ response' =
               IF book_id \notin DOMAIN books THEN Http404("delete_book")
               ELSE render("delete_book",
                           "library/book_confirm_delete.html",
                           [book |-> book_id], <<>>)
         /\ bound_form' = NoForm
         /\ session' = session
         /\ no_write

\* on_delete, had it been DO_NOTHING on a database that does not enforce
\* the foreign keys: no row holds a book back.
Restricting_nothing(book_id) == FALSE

\* The rows whose foreign key to the book is on_delete=RESTRICT.
Restricting(book_id) ==
    \/ \E i \in 1..Len(loans) : loans[i].book = book_id
    \/ \E i \in 1..Len(reviews) : reviews[i].book = book_id
    \/ \E r \in books_authors : r.book = book_id
    \/ \E r \in books_genres : r.book = book_id

\* delete_book, POST: book.delete() raises RestrictedError, which the view
\* does not catch, when a loan or a review refers to the book.
delete_book(book_id) ==
    IF ~is_admin(request_user) THEN user_passes_test("delete_book")
    ELSE /\ bound_form' = NoForm
         /\ session' = session
         /\ sent' = <<>>
         /\ UNCHANGED <<today, users, loans, reviews, books_authors,
                        books_genres, notifications>>
         /\ IF book_id \notin DOMAIN books
            THEN /\ response' = Http404("delete_book")
                 /\ books' = books
            ELSE IF Restricting(book_id)
            THEN /\ response' = ServerError("delete_book")
                 /\ books' = books
            ELSE /\ books' = [pk \in DOMAIN books \ {book_id} |-> books[pk]]
                 /\ response' = redirect("delete_book", "admin_books",
                                         <<"deleted">>)

-----------------------------------------------------------------------------
(* library/admin.py: the model admin of Loan, at /admin_builtin/ *)

\* The rows a staff member enters in the Loan form: any status and due date,
\* the book chosen among the existing rows and the user among the existing
\* patrons.
LoanForms ==
    {Loan(s, d, u, b) : s \in LoanStatus, d \in Dates,
                        u \in {pk \in DOMAIN users : ~users[pk].is_staff},
                        b \in DOMAIN books}

\* LoanAdmin, add view: saves a new row for a staff member; the admin site
\* sends anybody else to its login page.
LoanAdmin_add(u, form) ==
    /\ Len(loans) < MaxLoans
    /\ sent' = <<>>
    /\ IF is_admin(u)
       THEN /\ loans' = Append(loans, form)
            /\ response' = redirect("admin:library_loan_add",
                                    "admin:library_loan_changelist",
                                    <<"success">>)
       ELSE /\ UNCHANGED loans
            /\ response' = redirect("admin:library_loan_add", "admin:login",
                                    <<>>)
    /\ UNCHANGED <<today, users, books>>
    /\ UNCHANGED site

\* The rows whose foreign key to the user is on_delete=RESTRICT.
RestrictingUser(pk) ==
    \/ \E i \in 1..Len(loans) : loans[i].user = pk
    \/ \E i \in 1..Len(reviews) : reviews[i].user = pk
    \/ \E i \in 1..Len(notifications) : notifications[i].user = pk

\* The admin of Notification (the default ModelAdmin), add view: saves a
\* new row, for a user chosen among the existing ones, for a staff member.
NotificationAdmin_add(u, form) ==
    /\ Len(notifications) < MaxNotifications
    /\ form.user \in DOMAIN users
    /\ sent' = <<>>
    /\ IF is_admin(u)
       THEN /\ notifications' = Append(notifications, form)
            /\ response' = redirect("admin:library_notification_add",
                                    "admin:library_notification_changelist",
                                    <<"success">>)
       ELSE /\ UNCHANGED notifications
            /\ response' = redirect("admin:library_notification_add",
                                    "admin:login", <<>>)
    /\ UNCHANGED <<today, users, books, loans, session, reviews, bound_form,
                   books_authors, books_genres>>

\* BookAdmin, delete view, POST: the admin site collects the rows that hold
\* the book back and, if there is one, shows them instead of deleting.
BookAdmin_delete(u, pk) ==
    /\ sent' = <<>>
    /\ IF ~is_admin(u)
       THEN /\ response' = redirect("admin:library_book_delete",
                                    "admin:login", <<>>)
            /\ books' = books
       ELSE IF pk \notin DOMAIN books
       THEN /\ response' = redirect("admin:library_book_delete",
                                    "admin:index", <<"warning">>)
            /\ books' = books
       ELSE IF Restricting(pk)
       THEN /\ response' = render("admin:library_book_delete",
                                  "admin/delete_confirmation.html",
                                  [protected |-> TRUE], <<>>)
            /\ books' = books
       ELSE /\ response' = redirect("admin:library_book_delete",
                                    "admin:library_book_changelist",
                                    <<"success">>)
            /\ books' = [b \in DOMAIN books \ {pk} |-> books[b]]
    /\ UNCHANGED <<today, users, loans>>
    /\ UNCHANGED site

\* UserAdmin, delete view, POST.
UserAdmin_delete(u, pk) ==
    /\ sent' = <<>>
    /\ IF ~is_admin(u)
       THEN /\ response' = redirect("admin:library_user_delete",
                                    "admin:login", <<>>)
            /\ users' = users
       ELSE IF pk \notin DOMAIN users
       THEN /\ response' = redirect("admin:library_user_delete",
                                    "admin:index", <<"warning">>)
            /\ users' = users
       ELSE IF RestrictingUser(pk)
       THEN /\ response' = render("admin:library_user_delete",
                                  "admin/delete_confirmation.html",
                                  [protected |-> TRUE], <<>>)
            /\ users' = users
       ELSE /\ response' = redirect("admin:library_user_delete",
                                    "admin:library_user_changelist",
                                    <<"success">>)
            /\ users' = [v \in DOMAIN users \ {pk} |-> users[v]]
    /\ UNCHANGED <<today, books, loans>>
    /\ UNCHANGED site

-----------------------------------------------------------------------------
(* The clock *)

\* Midnight: timezone.now().date() is one more; no request is in flight.
NextDay ==
    /\ today < MaxDay
    /\ today' = today + 1
    /\ sent' = <<>>
    /\ response' = NoResponse
    /\ UNCHANGED <<users, books, loans>>
    /\ UNCHANGED site

-----------------------------------------------------------------------------
(* The system *)

\* The accounts every specification starts with: a staff member and two
\* patrons.
SeededUsers ==
    1 :> User("staffmember", "staff@example.com", <<"S", "t", "1", "!">>, TRUE)
    @@ 2 :> User("userone", "userone@example.com", <<"O", "n", "1", "!">>,
                 FALSE)
    @@ 3 :> User("usertwo", "usertwo@example.com", <<"T", "w", "2", "?">>,
                 FALSE)

\* A database with a staff account, two patrons and a book, and no loan yet.
Init ==
    /\ today = 0
    /\ users = SeededUsers
    /\ books = (1 :> Book("1984"))
    /\ loans = <<>>
    /\ sent = <<>>
    /\ response = NoResponse
    /\ session = NoSession
    /\ reviews = <<>>
    /\ bound_form = NoForm
    /\ books_authors = {}
    /\ books_genres = {}
    /\ notifications = <<>>

Next ==
    \/ \E u \in Requesters : admin_dashboard(u)
    \/ send_overdue_emails
    \/ \E u \in Requesters, f \in LoanForms : LoanAdmin_add(u, f)
    \/ NextDay

Spec == Init /\ [][Next]_vars

-----------------------------------------------------------------------------
(* The password validator on its own *)

\* Characters of each class and one symbol the validator does not list.
Chars == {"A", "a", "1", "!", "_"}

\* The passwords submitted.
Passwords == UNION {[1..n -> Chars] : n \in 0..MaxLen}

NextValidator == \E password \in Passwords : run_validators(password)

SpecValidator == Init /\ [][NextValidator]_vars

-----------------------------------------------------------------------------
(* Accounts: logging in and out, and the profile page *)

\* A password that passes the validator, and one that does not.
NewPassword == <<"N", "w", "2", "#">>
WeakPassword == <<"w", "e", "a", "k">>

\* The passwords typed into the profile forms: nothing, userone's password,
\* the new one with and without a space after it, and the weak one.
PasswordInputs ==
    {<<>>, SeededUsers[2].password, NewPassword, NewPassword \o <<" ">>,
     WeakPassword}

\* The usernames typed into the profile form: none, a taken one, a free one.
UsernameInputs == {"", "usertwo", "renamed"}

EmailInputs == {"", "new@example.com"}

\* What is typed into the login form.
LoginUsernames == {"", "staffmember", "userone", "renamed", "nobody"}
LoginPasswords == PasswordInputs \cup {SeededUsers[1].password}

NextAccounts ==
    \/ login_view_get
    \/ \E username \in LoginUsernames, password \in LoginPasswords :
          login_view(username, password)
    \/ logout_view
    \/ profile_get
    \/ profile_edit_profile
    \/ \E username \in UsernameInputs, email \in EmailInputs,
          current_password \in PasswordInputs :
          profile_edit_username_email(username, email, current_password)
    \/ \E current_password \in PasswordInputs,
          new_password \in PasswordInputs,
          confirm_new_password \in PasswordInputs :
          profile_change_password(current_password, new_password,
                                  confirm_new_password)

SpecAccounts == Init /\ [][NextAccounts]_vars

-----------------------------------------------------------------------------
(* The custom admin pages *)

\* The pks asked for in the URLs.
BookIds == 1..MaxBooks

\* The titles typed into the book form: none, or a title.
TitleInputs == {"", "Dune"}

\* The database of Init, on which a patron may have reviewed the book.
InitAdmin ==
    /\ today = 0
    /\ users = SeededUsers
    /\ books = (1 :> Book("1984"))
    /\ loans = <<>>
    /\ sent = <<>>
    /\ response = NoResponse
    /\ session = NoSession
    /\ reviews \in {<<>>, <<Review(5, "good", 2, 1)>>}
    /\ bound_form = NoForm
    /\ books_authors = {}
    /\ books_genres = {}
    /\ notifications = <<>>

NextAdmin ==
    \/ \E username \in LoginUsernames, password \in LoginPasswords :
          login_view(username, password)
    \/ logout_view
    \/ admin_dashboard(request_user)
    \/ admin_books
    \/ add_book_get
    \/ \E title \in TitleInputs, authors \in SUBSET Authors,
          genres \in SUBSET Genres :
          add_book(title, authors, genres)
    \/ \E book_id \in BookIds : edit_book_get(book_id)
    \/ \E book_id \in BookIds, title \in TitleInputs,
          authors \in SUBSET Authors, genres \in SUBSET Genres :
          edit_book(book_id, title, authors, genres)
    \/ \E book_id \in BookIds : delete_book_get(book_id)
    \/ \E book_id \in BookIds : delete_book(book_id)

SpecAdmin == InitAdmin /\ [][NextAdmin]_vars

-----------------------------------------------------------------------------
(* Reviews *)

\* The ratings and texts typed into the review form.
RatingInputs == {0, 3, 6}
TextInputs == {"", "good"}

NextReviews ==
    \/ \E username \in LoginUsernames, password \in LoginPasswords :
          login_view(username, password)
    \/ logout_view
    \/ \E book_id \in BookIds : book_detail_get(book_id)
    \/ \E book_id \in BookIds, rating \in RatingInputs,
          review_text \in TextInputs :
          book_detail(book_id, rating, review_text)

SpecReviews == Init /\ [][NextReviews]_vars

-----------------------------------------------------------------------------
(* The rows that refer to books and users *)

\* The pks asked for in the URLs of the user admin.
UserIds == 1..3

\* Who logs in: the staff member and a patron, with their passwords.
Logins ==
    {<<SeededUsers[u].username, SeededUsers[u].password>> : u \in {1, 2}}

\* The loan entered: of any book to a patron, borrowed and due on day 0.
LoanEntries == {form \in LoanForms : form.status = BORROWED /\ form.due_date = 0}

\* The notification entered: for any user.
NotificationForms == {Notification("hello", u) : u \in DOMAIN users}

\* The rows are entered into empty tables: one loan, one review and one
\* notification at most refer to the books and the users.
NextIntegrity ==
    \/ \E login \in Logins : login_view(login[1], login[2])
    \/ /\ reviews = <<>>
       /\ \E book_id \in BookIds : book_detail(book_id, 3, "good")
    \/ /\ loans = <<>>
       /\ \E form \in LoanEntries : LoanAdmin_add(request_user, form)
    \/ /\ notifications = <<>>
       /\ \E form \in NotificationForms :
             NotificationAdmin_add(request_user, form)
    \/ \E authors \in SUBSET Authors, genres \in SUBSET Genres :
          add_book("Dune", authors, genres)
    \/ \E book_id \in BookIds : delete_book(book_id)
    \/ \E pk \in BookIds : BookAdmin_delete(request_user, pk)
    \/ \E pk \in UserIds : UserAdmin_delete(request_user, pk)

SpecIntegrity == Init /\ [][NextIntegrity]_vars

-----------------------------------------------------------------------------
(* The overdue display of the admin dashboard *)

\* The entry of the overdue result for loan pk has d days and the fine of d
\* days.
HasEntry(pk, d) ==
    \E i \in DOMAIN OverdueResult :
        /\ OverdueResult[i].loan = pk
        /\ OverdueResult[i].days_overdue = d
        /\ OverdueResult[i].fine_amount = d * DailyFineRate

\* The loans listed in the overdue result.
Listed == {OverdueResult[i].loan : i \in DOMAIN OverdueResult}

\* C1: on the dashboard, every loan with status 'borrowed' or 'overdue' whose
\* due date is N > 0 days before the current date has an overdue entry with
\* days_overdue = N and fine_amount = N x 1.00.
C1_DaysAndFine ==
    DashboardServed =>
        \A pk \in LoanPks :
            (loans[pk].status \in {BORROWED, OVERDUE} /\ PastDue(pk))
                => HasEntry(pk, today - loans[pk].due_date)

\* C2: the overdue result of the dashboard lists exactly the loans whose
\* status is 'overdue' or whose status is 'borrowed' with a due date before
\* the current date; a 'returned' loan is never listed.
C2_SelectsExactly ==
    DashboardServed => Listed = {pk \in LoanPks : Selected(pk)}

\* C3: a loan whose due date is on or after the current date is not in the
\* overdue result of the dashboard, whatever its status.
C3_NotDueExcluded ==
    DashboardServed =>
        \A pk \in LoanPks : loans[pk].due_date >= today => pk \notin Listed

\* C3, its case: the dashboard was served while a loan marked 'overdue' was
\* not yet past its due date.
C3_Witness ==
    /\ DashboardServed
    /\ \E pk \in LoanPks :
          loans[pk].status = OVERDUE /\ loans[pk].due_date >= today

\* C4: a loan is actionable as overdue exactly when its due date is before
\* the current date, whatever its status: it is then, and only then, in the
\* overdue display, and its borrower is then, and only then, notified by a
\* bulk notification.
C4_ActionableIffPastDue ==
    /\ DashboardServed => \A pk \in LoanPks : pk \in Listed <=> PastDue(pk)
    /\ BulkServed =>
          \A u \in DOMAIN users : SentTo(u) # {} <=> u \in OverdueBorrowers

-----------------------------------------------------------------------------
(* The bulk overdue notification *)

\* C7: one run of the bulk notification calls send_mail once for each
\* borrower with a loan past its due date and for nobody else, so as many
\* times as there are such borrowers.
C7_OneMailPerBorrower ==
    BulkServed =>
        /\ Len(sent) = Cardinality(OverdueBorrowers)
        /\ \A u \in DOMAIN users :
              Cardinality(SentTo(u)) = IF u \in OverdueBorrowers THEN 1 ELSE 0

\* C8: the message of a borrower lists every loan of that borrower that is
\* past its due date and states the sum of their fines as the total.
C8_MessageListsAll ==
    BulkServed =>
        \A u \in OverdueBorrowers :
            \E i \in SentTo(u) :
                /\ sent[i].loans = OverdueLoansOf(u)
                /\ sent[i].total = TotalFine(OverdueLoansOf(u))

C10_AlwaysRedirects ==
    BulkServed =>
        /\ response.status = 302
        /\ response.location = "admin_dashboard"
        /\ OverdueBorrowers = {} => Len(sent) = 0

C12_RecheckedDueDate ==
    BulkServed =>
        /\ \A i \in 1..Len(sent) :
              /\ \A pk \in sent[i].loans : PastDue(pk)
              /\ sent[i].total
                   = TotalFine({pk \in sent[i].loans : PastDue(pk)})
        /\ \A u \in DOMAIN users : OverdueLoansOf(u) = {} => SentTo(u) = {}

\* C12, its case: the bulk notification was requested while a borrower's only
\* loan was marked 'overdue' without being past its due date.
C12_Witness ==
    /\ BulkServed
    /\ \E pk \in LoanPks :
          /\ loans[pk].status = OVERDUE
          /\ ~PastDue(pk)
          /\ OverdueLoansOf(loans[pk].user) = {}

-----------------------------------------------------------------------------
(* The dashboard's context *)

C15_ContextKeys ==
    DashboardServed =>
        /\ {"active_loans", "overdue_books_with_fines", "today"}
              \subseteq DOMAIN response.context
        /\ \A i \in DOMAIN response.context["active_loans"] :
              response.context["active_loans"][i] \in LoanPks

-----------------------------------------------------------------------------
(* Passwords *)

\* The classes in the order the validator names them, and their codes.
CharacterClasses == <<Upper, Lower, Digit, Symbol>>
ErrorCodes ==
    <<"password_no_upper", "password_no_lower", "password_no_digit",
      "password_no_symbol">>

\* The classes no character of the password is of.
Missing(password) ==
    {k \in 1..4 : \A i \in 1..Len(password) :
                      password[i] \notin CharacterClasses[k]}

\* C16: a validated password is accepted iff it has an uppercase letter, a
\* lowercase letter, a digit and a listed symbol; otherwise the one error
\* raised names the first class missing, in the order uppercase, lowercase,
\* digit, symbol.
C16_FirstMissingClass ==
    bound_form # NoForm =>
        LET missing == Missing(bound_form.data)
        IN  IF missing = {}
            THEN bound_form.errors = {}
            ELSE \E k \in missing :
                    /\ \A j \in missing : k <= j
                    /\ bound_form.errors = {ErrorCodes[k]}

\* C16, its case: a password with an uppercase letter, a lowercase letter, a
\* digit and a symbol outside the list was validated.
C16_Witness ==
    /\ bound_form # NoForm
    /\ Missing(bound_form.data) = {4}
    /\ \E i \in 1..Len(bound_form.data) :
          bound_form.data[i] \notin Upper \cup Lower \cup Digit

-----------------------------------------------------------------------------
(* Accounts *)

\* The fields a form was bound to.
Fields(form) == DOMAIN form.data

\* The users whose username and password are those typed into the login
\* form.
CredentialsOf(form) ==
    IF "password" \in Fields(form) /\ "username" \in Fields(form)
    THEN {u \in DOMAIN users :
             /\ users[u].username = form.data.username
             /\ users[u].password = strip(form.data.password)}
    ELSE {}

\* C17: a request to login_view leaves the client logged in as the user
\* whose username and password were submitted and redirects to
\* 'admin_dashboard' for a staff member and to 'dashboard' for anyone else;
\* when the credentials are nobody's or the form is incomplete it leaves the
\* session as it was and renders the login page.
C17_SessionOnlyWhenAuthenticated ==
    [][response'.view = "login_view" =>
          IF CredentialsOf(bound_form') # {}
          THEN \E u \in CredentialsOf(bound_form') :
                  /\ session'.user = u
                  /\ request_user' = u
                  /\ response'.status = 302
                  /\ response'.location =
                        IF users[u].is_staff THEN "admin_dashboard"
                        ELSE "dashboard"
          ELSE /\ session' = session
               /\ response'.status = 200
               /\ response'.template = "library/login.html"]_vars

\* C17, its cases: a patron has just logged in and was sent to 'dashboard'.
C17_Witness ==
    /\ response.view = "login_view"
    /\ response.location = "dashboard"
    /\ request_user # Anonymous
    /\ ~users[request_user].is_staff

\* The stored username, email and password of every user.
Credentials ==
    [u \in DOMAIN users |->
        <<users[u].username, users[u].email, users[u].password>>]

\* C19: a request to the profile view changes a stored username, email or
\* password only of the requester and only if the current_password submitted
\* is the requester's password; a form submitted with another
\* current_password is rejected and leaves the users as they were.
C19_CurrentPasswordRequired ==
    [][response'.view = "profile" =>
          /\ Credentials' # Credentials =>
                /\ request_user # Anonymous
                /\ \A u \in DOMAIN users \ {request_user} :
                      Credentials'[u] = Credentials[u]
                /\ "current_password" \in Fields(bound_form')
                /\ strip(bound_form'.data.current_password)
                      = users[request_user].password
          /\ ( /\ request_user # Anonymous
               /\ "current_password" \in Fields(bound_form')
               /\ strip(bound_form'.data.current_password)
                     # users[request_user].password )
             => /\ bound_form'.errors # {}
                /\ response'.status = 200
                /\ users' = users]_vars

\* C19, its case: the profile was posted with a new username and email and
\* a current_password that is not the requester's, and nothing else wrong.
C19_Witness ==
    /\ response.view = "profile"
    /\ "username" \in Fields(bound_form)
    /\ bound_form.errors = {<<"current_password", "incorrect_password">>}

\* C20: a change_password request that succeeds had new_password equal to
\* confirm_new_password and accepted by CharacterVarietyValidator, stores it
\* as the requester's password and nothing else, and leaves the requester
\* logged in; one that does not succeed leaves the users as they were.
C20_PasswordChange ==
    [][( /\ response'.view = "profile"
         /\ request_user # Anonymous
         /\ "new_password" \in Fields(bound_form') ) =>
          LET new == strip(bound_form'.data.new_password)
              confirm == strip(bound_form'.data.confirm_new_password)
          IN  IF response'.status = 302
              THEN /\ new = confirm
                   /\ CharacterVarietyValidator(new) = {}
                   /\ users' =
                        [users EXCEPT ![request_user].password = new]
                   /\ request_user' = request_user
              ELSE users' = users]_vars

\* C20, its case: the requester has just changed the password and is still
\* logged in.
C20_Witness ==
    /\ response.view = "profile"
    /\ response.messages = <<"Password updated successfully.">>
    /\ request_user # Anonymous
    /\ users[request_user].password = NewPassword

-----------------------------------------------------------------------------
(* The custom admin pages and the reviews *)

AdminViews ==
    {"admin_dashboard", "admin_books", "add_book", "edit_book",
     "delete_book"}

\* C14: a request to admin_dashboard, admin_books, add_book, edit_book or
\* delete_book by a requester who is not a staff member is answered with a
\* redirect to 'login' and leaves the books as they were; a staff member is
\* not sent to 'login', and gets the dashboard with status 200.
C14_StaffOnly ==
    [][response'.view \in AdminViews =>
          IF request_user # Anonymous /\ users[request_user].is_staff
          THEN /\ response'.location # "login"
               /\ response'.view = "admin_dashboard"
                     => response'.status = 200
          ELSE /\ response'.status = 302
               /\ response'.location = "login"
               /\ books' = books]_vars

\* C14, its case: a patron who is logged in has asked for add_book,
\* edit_book or delete_book and was sent to 'login'.
C14_Witness ==
    /\ response.view \in {"add_book", "edit_book", "delete_book"}
    /\ response.location = "login"
    /\ request_user # Anonymous
    /\ ~users[request_user].is_staff

-----------------------------------------------------------------------------
(* Deleting books *)

\* The books without the one of that pk.
Without(book_id) == [pk \in DOMAIN books \ {book_id} |-> books[pk]]

\* C21: for a staff member, a POST to delete_book deletes the book of the
\* URL and redirects to 'admin_books'; a GET deletes nothing and shows the
\* confirmation page; for a book that does not exist either answers 404 and
\* deletes nothing.
C21_DeleteBook ==
    [][\A book_id \in BookIds :
          is_admin(request_user) =>
             /\ delete_book(book_id) =>
                   IF book_id \in DOMAIN books
                   THEN /\ books' = Without(book_id)
                        /\ response'.status = 302
                        /\ response'.location = "admin_books"
                   ELSE /\ books' = books
                        /\ response'.status = 404
             /\ delete_book_get(book_id) =>
                   /\ books' = books
                   /\ IF book_id \in DOMAIN books
                      THEN response'.template
                              = "library/book_confirm_delete.html"
                      ELSE response'.status = 404]_vars

-----------------------------------------------------------------------------
(* Referential integrity *)

\* The books and the users that rows of the other tables refer to.
ReferencedBooks ==
    {loans[i].book : i \in 1..Len(loans)}
    \cup {reviews[i].book : i \in 1..Len(reviews)}
    \cup {r.book : r \in books_authors}
    \cup {r.book : r \in books_genres}

ReferencedUsers ==
    {loans[i].user : i \in 1..Len(loans)}
    \cup {reviews[i].user : i \in 1..Len(reviews)}
    \cup {notifications[i].user : i \in 1..Len(notifications)}

\* Every row refers to rows that exist.
ReferencesHold ==
    /\ ReferencedBooks \subseteq DOMAIN books
    /\ ReferencedUsers \subseteq DOMAIN users

\* No step deletes a book or a user that a row refers to.
ReferencedStay ==
    /\ \A b \in ReferencedBooks : b \in DOMAIN books'
    /\ \A u \in ReferencedUsers : u \in DOMAIN users'

\* C22: in every reachable state every loan, review, books_authors and
\* books_genres row refers to an existing book and every loan, review and
\* notification to an existing user, and no request deletes a book or a user
\* that such a row refers to.
C22_ReferentialIntegrity == []ReferencesHold /\ [][ReferencedStay]_vars

\* C22, its case: a staff member's request to delete a book or a user that
\* a row refers to has just been refused.
C22_Witness ==
    \/ /\ response.view = "delete_book"
       /\ response.status = 500
       /\ ReferencedBooks # {}
    \/ /\ response.view = "admin:library_user_delete"
       /\ response.template = "admin/delete_confirmation.html"
       /\ ReferencedUsers # {}

====
